---------------------------- MODULE Spec2Model ----------------------------
(***************************************************************************)
(* A model of the hero-canvas particle simulation of src/script.js (the    *)
(* second, complete variant of initHeroCanvas, lines 577-912): the         *)
(* quadtree, the force model and integrator of simulate, the frame         *)
(* callback draw with its visibility gate, and the host event handlers.    *)
(*                                                                         *)
(* Numbers.  The program computes in IEEE doubles.  The model computes in  *)
(* fixed point: a length or a velocity is an integer count of 1/SCALE      *)
(* pixel, a time is an integer count of milliseconds, and every quotient   *)
(* is rounded toward zero (Div), which like IEEE rounding is symmetric in  *)
(* the sign of its argument.  Before a squared distance is formed the      *)
(* model tests the bounding box of the range the code tests next           *)
(* (InRange): the result is the same and the products stay within TLC's    *)
(* 32-bit integers.                                                        *)
(***************************************************************************)
EXTENDS Integers, Sequences, FiniteSets, TLC

(***************************************************************************)
(* Bounds of the model.                                                    *)
(***************************************************************************)
\* Fixed-point resolution: units per pixel.
SCALE == 8
\* Number of particles generateNodes creates (the program's BALL_COUNT is 280).
BALL_COUNT == 2
\* Largest number of steps of a behaviour: callbacks the host runs (frames and
\* event listeners) and steps of the clock.
MaxSteps == 5
\* Milliseconds by which one step of the clock advances performance.now().
ClockStep == 200

\* Milliseconds the clock advances in a short step, less than the wait of the
\* throttle.
ShortStep == 50

(***************************************************************************)
(* Program constants.                                                      *)
(***************************************************************************)
\* HOME_STRENGTH = 0.005 = 1 / 200
HOME_STRENGTH_INV == 200
CURSOR_REPULSION == 8000
\* DAMPING = 0.88 = 88 / 100
DAMPING_PCT == 88
\* Lifetime of a shockwave in milliseconds (now - s.time < 400).
SHOCK_LIFE == 400
\* const swRadius = 300
SW_RADIUS == 300
\* cDistSq < 200 * 200
CURSOR_RANGE == 200
\* const glowRange = 150
GLOW_RANGE == 150
\* this.items.length > 8
QT_CAPACITY == 8
\* this.depth < 6
QT_MAX_DEPTH == 6
\* mouseX = -9999 (pixels): the off-canvas pointer
OFFSCREEN_PX == -9999
\* throttle(resize, 150)
RESIZE_WAIT == 150

COLORS == << "#009cde", "#46c8b2", "#f5d800", "#ff8b22", "#ff6859", "#fc4d77" >>

\* Denominator of scrollProgress: the variable counts thousandths.
SP_DEN == 1000
\* scrollProgress after clamp(NaN, 0, 1): Math.min(Math.max(NaN, 0), 1) is NaN.
\* Like NaN, the marker fails every test "scrollProgress > 0".
NaN == -1

(***************************************************************************)
(* Arithmetic.                                                             *)
(***************************************************************************)
Abs(a) == IF a < 0 THEN -a ELSE a

Min(a, b) == IF a < b THEN a ELSE b

Max(a, b) == IF a > b THEN a ELSE b

\* a / b for b > 0, rounded toward zero.
Div(a, b) == IF a >= 0 THEN a \div b ELSE -((-a) \div b)

RECURSIVE SqrtSearch(_, _, _)
SqrtSearch(n, lo, hi) ==
    IF lo >= hi THEN lo
    ELSE LET mid == (lo + hi + 1) \div 2
         IN  IF mid * mid <= n THEN SqrtSearch(n, mid, hi)
                               ELSE SqrtSearch(n, lo, mid - 1)

\* Math.sqrt, rounded down to a whole unit.
Sqrt(n) == SqrtSearch(n, 0, Min(n, 46340))

\* dx*dx + dy*dy < R*R, R > 0
InRange(dx, dy, R) ==
    /\ Abs(dx) < R
    /\ Abs(dy) < R
    /\ dx * dx + dy * dy < R * R

\* clamp(v, min, max) = Math.min(Math.max(v, min), max)
clamp(v, lo, hi) == Min(Max(v, lo), hi)

\* A pixel count in units.
Px(p) == p * SCALE

(***************************************************************************)
(* The quadtree (class QuadTree).  A tree is a record; its items are the   *)
(* indices, into the particle array, of the particles it holds (the        *)
(* program stores references to the particle objects, so what a traversal  *)
(* reads of a stored particle is the particle's current fields).  The      *)
(* rectangle of a tree is kept in 1/QT_FRAC units, so that the halvings of *)
(* _split and the midlines of _getIndex are exact, as they are in doubles. *)
(***************************************************************************)
QT_FRAC == 2 ^ (QT_MAX_DEPTH + 1)

QuadTree(x, y, w, h, depth) ==
    [x |-> x, y |-> y, w |-> w, h |-> h, depth |-> depth,
     items |-> << >>, children |-> << >>]

\* _getIndex: the child quadrant (0..3) that holds the particle's box, or -1.
GetIndex(t, node) ==
    LET mx == t.x + t.w \div 2
        my == t.y + t.h \div 2
        lox == (node.x - node.r) * QT_FRAC
        hix == (node.x + node.r) * QT_FRAC
        loy == (node.y - node.r) * QT_FRAC
        hiy == (node.y + node.r) * QT_FRAC
        top == loy < my /\ hiy < my
        bottom == loy > my
        left == lox < mx /\ hix < mx
        right == lox > mx
    IN  IF right /\ top THEN 0
        ELSE IF right /\ bottom THEN 2
        ELSE IF left /\ top THEN 1
        ELSE IF left /\ bottom THEN 3
        ELSE -1

\* _split: four equal quadrants, in the order NE, NW, SW, SE.
Split(t) ==
    LET hw == t.w \div 2
        hh == t.h \div 2
        d == t.depth + 1
    IN  [t EXCEPT !.children =
            << QuadTree(t.x + hw, t.y, hw, hh, d),
               QuadTree(t.x, t.y, hw, hh, d),
               QuadTree(t.x, t.y + hh, hw, hh, d),
               QuadTree(t.x + hw, t.y + hh, hw, hh, d) >>]

RemoveAt(s, k) == [j \in 1 .. Len(s) - 1 |-> IF j < k THEN s[j] ELSE s[j + 1]]

RECURSIVE InsertDeep(_, _, _)
RECURSIVE RedistributeDeep(_, _, _)
\* insert and its loop without the test of the depth (variants C24 must tell
\* apart).
RedistributeDeep(t, k, arr) ==
    IF k = 0 THEN t
    ELSE LET it == t.items[k]
             idx == GetIndex(t, arr[it])
         IN  IF idx # -1
             THEN RedistributeDeep(
                      [t EXCEPT !.children[idx + 1] = InsertDeep(@, it, arr),
                                !.items = RemoveAt(@, k)],
                      k - 1, arr)
             ELSE RedistributeDeep(t, k - 1, arr)

InsertDeep(t, i, arr) ==
    LET idx == GetIndex(t, arr[i])
    IN  IF t.children # << >> /\ idx # -1
        THEN [t EXCEPT !.children[idx + 1] = InsertDeep(@, i, arr)]
        ELSE LET t1 == [t EXCEPT !.items = Append(@, i)]
             IN  IF Len(t1.items) > QT_CAPACITY /\ t1.children = << >>
                    /\ t1.depth < QT_MAX_DEPTH + 1
                 THEN RedistributeDeep(Split(t1), Len(t1.items), arr)
                 ELSE t1

RECURSIVE Insert(_, _, _)
RECURSIVE Redistribute(_, _, _)
RECURSIVE RedistributeCopy(_, _, _)
\* The loop that follows _split without the splice: an item that fits a child
\* is inserted into it and stays in the parent too (a variant C27 must tell
\* apart).
RedistributeCopy(t, k, arr) ==
    IF k = 0 THEN t
    ELSE LET it == t.items[k]
             idx == GetIndex(t, arr[it])
         IN  IF idx # -1
             THEN RedistributeCopy(
                      [t EXCEPT !.children[idx + 1] = Insert(@, it, arr)],
                      k - 1, arr)
             ELSE RedistributeCopy(t, k - 1, arr)

\* The loop of insert that follows _split: from the last item to the first,
\* an item that fits a child is spliced out and inserted into that child.
Redistribute(t, k, arr) ==
    IF k = 0 THEN t
    ELSE LET it == t.items[k]
             idx == GetIndex(t, arr[it])
         IN  IF idx # -1
             THEN Redistribute(
                      [t EXCEPT !.children[idx + 1] = Insert(@, it, arr),
                                !.items = RemoveAt(@, k)],
                      k - 1, arr)
             ELSE Redistribute(t, k - 1, arr)

\* insert(node): particle i of arr goes into tree t.
Insert(t, i, arr) ==
    LET idx == GetIndex(t, arr[i])
    IN  IF t.children # << >> /\ idx # -1
        THEN [t EXCEPT !.children[idx + 1] = Insert(@, i, arr)]
        ELSE LET t1 == [t EXCEPT !.items = Append(@, i)]
             IN  IF Len(t1.items) > QT_CAPACITY /\ t1.depth < QT_MAX_DEPTH
                    /\ t1.children = << >>
                 THEN Redistribute(Split(t1), Len(t1.items), arr)
                 ELSE t1

RECURSIVE RetrieveBelowOnly(_, _)
\* retrieve without the items of a node that has children (a variant C11 must
\* tell apart).
RetrieveBelowOnly(t, node) ==
    LET idx == GetIndex(t, node)
    IN  IF t.children = << >> THEN t.items
        ELSE IF idx # -1 THEN RetrieveBelowOnly(t.children[idx + 1], node)
        ELSE RetrieveBelowOnly(t.children[1], node) \o RetrieveBelowOnly(t.children[2], node)
             \o RetrieveBelowOnly(t.children[3], node) \o RetrieveBelowOnly(t.children[4], node)

RECURSIVE Retrieve(_, _)
\* retrieve(node, result): what the call pushes onto result, in order.
Retrieve(t, node) ==
    LET idx == GetIndex(t, node)
        below == IF t.children = << >> THEN << >>
                 ELSE IF idx # -1 THEN Retrieve(t.children[idx + 1], node)
                 ELSE Retrieve(t.children[1], node) \o Retrieve(t.children[2], node)
                      \o Retrieve(t.children[3], node) \o Retrieve(t.children[4], node)
    IN  below \o t.items

RECURSIVE InsertAll(_, _, _)
InsertAll(t, i, arr) ==
    IF i > Len(arr) THEN t ELSE InsertAll(Insert(t, i, arr), i + 1, arr)

\* const qt = new QuadTree(0, 0, width, height); every particle inserted.
BuildTree(arr, w, h) ==
    InsertAll(QuadTree(0, 0, w * QT_FRAC, h * QT_FRAC, 0), 1, arr)

(***************************************************************************)
(* The force model and the integrator: the body of the particle loop of    *)
(* simulate, one operator per numbered step.  A particle is a record       *)
(* [x, y, homeX, homeY, vx, vy, r, color].                                 *)
(***************************************************************************)
\* 1. Return to home position.
HomePull(n) ==
    [n EXCEPT !.vx = @ + Div(n.homeX - n.x, HOME_STRENGTH_INV),
              !.vy = @ + Div(n.homeY - n.y, HOME_STRENGTH_INV)]

\* 2. Scroll dispersion: disperseForce = scrollProgress * 2.5, along the
\*    direction from the centre; sDist = Math.sqrt(...) || 1.
Disperse(n, sp, cx, cy) ==
    IF sp > 0
    THEN LET sdx == n.x - cx
             sdy == n.y - cy
             sq == Sqrt(sdx * sdx + sdy * sdy)
             sDist == IF sq = 0 THEN Px(1) ELSE sq
         IN  [n EXCEPT !.vx = @ + Div(sdx * sp * 5 * SCALE, sDist * SP_DEN * 2),
                       !.vy = @ + Div(sdy * sp * 5 * SCALE, sDist * SP_DEN * 2)]
    ELSE n

\* 3. Cursor repulsion: force = CURSOR_REPULSION / cDistSq along (cdx, cdy) / cDist.
CursorRepel(n, mx, my) ==
    LET cdx == n.x - mx
        cdy == n.y - my
    IN  IF InRange(cdx, cdy, Px(CURSOR_RANGE)) /\ (cdx # 0 \/ cdy # 0)
        THEN LET cDistSq == cdx * cdx + cdy * cdy
                 cDist == Sqrt(cDistSq)
                 force == Div(CURSOR_REPULSION * SCALE * SCALE * SCALE, cDistSq)
             IN  [n EXCEPT !.vx = @ + Div(cdx * force, cDist),
                           !.vy = @ + Div(cdy * force, cDist)]
        ELSE n

\* 4. One shockwave: swForce = (1 - age) * 15 * (1 - swDist / swRadius),
\*    age = (now - sw.time) / 400.
ShockPush(n, sw, t) ==
    LET swdx == n.x - sw.x
        swdy == n.y - sw.y
    IN  IF InRange(swdx, swdy, Px(SW_RADIUS)) /\ (swdx # 0 \/ swdy # 0)
        THEN LET swDist == Sqrt(swdx * swdx + swdy * swdy)
                 swForce == Div(15 * SCALE * (SHOCK_LIFE - (t - sw.time))
                                   * (Px(SW_RADIUS) - swDist),
                                SHOCK_LIFE * Px(SW_RADIUS))
             IN  [n EXCEPT !.vx = @ + Div(swdx * swForce, swDist),
                           !.vy = @ + Div(swdy * swForce, swDist)]
        ELSE n

RECURSIVE ShockLoop(_, _, _, _)
\* for (let s = 0; s < shockwaves.length; s++)
ShockLoop(n, sws, s, t) ==
    IF s > Len(sws) THEN n ELSE ShockLoop(ShockPush(n, sws[s], t), sws, s + 1, t)

\* A push whose minimum distance counts n's own radius twice instead of both
\* radii (a variant C10 must tell apart).
CollisionPushOwnRadius(n, o) ==
    LET dx == n.x - o.x
        dy == n.y - o.y
        minDist == n.r + n.r + Px(1)
    IN  IF InRange(dx, dy, minDist) /\ (dx # 0 \/ dy # 0)
        THEN LET dist == Sqrt(dx * dx + dy * dy)
                 overlap == minDist - dist
             IN  [vx |-> Div(dx * overlap * 3, dist * 10),
                  vy |-> Div(dy * overlap * 3, dist * 10)]
        ELSE [vx |-> 0, vy |-> 0]

\* A push that draws n towards o (a variant C23 must tell apart).
CollisionPushInward(n, o) ==
    LET dx == n.x - o.x
        dy == n.y - o.y
        minDist == n.r + o.r + Px(1)
    IN  IF InRange(dx, dy, minDist) /\ (dx # 0 \/ dy # 0)
        THEN LET dist == Sqrt(dx * dx + dy * dy)
                 overlap == minDist - dist
             IN  [vx |-> -Div(dx * overlap * 3, dist * 10),
                  vy |-> -Div(dy * overlap * 3, dist * 10)]
        ELSE [vx |-> 0, vy |-> 0]

\* 5. The push particle n receives from particle o: (dx, dy) / dist * overlap * 0.3,
\*    or nothing when o is out of range or exactly at n's place.
CollisionPush(n, o) ==
    LET dx == n.x - o.x
        dy == n.y - o.y
        minDist == n.r + o.r + Px(1)
    IN  IF InRange(dx, dy, minDist) /\ (dx # 0 \/ dy # 0)
        THEN LET dist == Sqrt(dx * dx + dy * dy)
                 overlap == minDist - dist
             IN  [vx |-> Div(dx * overlap * 3, dist * 10),
                  vy |-> Div(dy * overlap * 3, dist * 10)]
        ELSE [vx |-> 0, vy |-> 0]

Zero == [vx |-> 0, vy |-> 0]

RECURSIVE CollideLoop(_, _, _, _, _)
\* for (let j = 0; j < nearby.length; j++): c.n is particle i; o = arr[nearby[j]]
\* is read as it is now, and skipped when it is n itself.  c.got[k] is the sum
\* of what the loop has added to n's velocity on account of particle k.
CollideLoop(c, i, arr, nearby, j) ==
    IF j > Len(nearby) THEN c
    ELSE IF nearby[j] = i THEN CollideLoop(c, i, arr, nearby, j + 1)
    ELSE LET push == CollisionPush(c.n, arr[nearby[j]])
         IN  CollideLoop(
                 [n |-> [c.n EXCEPT !.vx = @ + push.vx, !.vy = @ + push.vy],
                  got |-> [c.got EXCEPT ![nearby[j]] =
                              [vx |-> @.vx + push.vx, vy |-> @.vy + push.vy]]],
                 i, arr, nearby, j + 1)

\* An integration that moves the home along with the particle (a variant C14
\* must tell apart).
IntegrateWithHome(n) ==
    LET vx == Div(n.vx * DAMPING_PCT, 100)
        vy == Div(n.vy * DAMPING_PCT, 100)
    IN  [n EXCEPT !.vx = vx, !.vy = vy, !.x = @ + vx, !.y = @ + vy,
                  !.homeX = @ + vx, !.homeY = @ + vy]

\* 6. Apply velocity with damping.
Integrate(n) ==
    LET vx == Div(n.vx * DAMPING_PCT, 100)
        vy == Div(n.vy * DAMPING_PCT, 100)
    IN  [n EXCEPT !.vx = vx, !.vy = vy, !.x = @ + vx, !.y = @ + vy]

\* Bounce without the test of the top wall (a variant C1 must tell apart).
BounceNoTop(n, w, h) ==
    LET margin == n.r
        a == IF n.x < margin THEN [n EXCEPT !.x = margin, !.vx = Div(-@, 2)] ELSE n
        b == IF a.x > w - margin THEN [a EXCEPT !.x = w - margin, !.vx = Div(-@, 2)] ELSE a
        d == IF b.y > h - margin THEN [b EXCEPT !.y = h - margin, !.vy = Div(-@, 2)] ELSE b
    IN  d

\* 7. Keep balls in bounds: four tests in sequence, each on the result of the last.
Bounce(n, w, h) ==
    LET margin == n.r
        a == IF n.x < margin THEN [n EXCEPT !.x = margin, !.vx = Div(-@, 2)] ELSE n
        b == IF a.x > w - margin THEN [a EXCEPT !.x = w - margin, !.vx = Div(-@, 2)] ELSE a
        c == IF b.y < margin THEN [b EXCEPT !.y = margin, !.vy = Div(-@, 2)] ELSE b
        d == IF c.y > h - margin THEN [c EXCEPT !.y = h - margin, !.vy = Div(-@, 2)] ELSE c
    IN  d

\* One pass of the particle loop of simulate for particle i: arr is the array as
\* it is when the pass starts, qt the tree built before the loop.
\* The result is [n, got]: the particle as the pass leaves it, and the pushes
\* step 5 gave it, by the index of the other particle.
StepNode(arr, i, qt, in) ==
    LET n0 == arr[i]
        n1 == HomePull(n0)
        n2 == Disperse(n1, in.sp, in.cx, in.cy)
        n3 == CursorRepel(n2, in.mx, in.my)
        n4 == ShockLoop(n3, in.sws, 1, in.now)
        c5 == CollideLoop([n |-> n4, got |-> [k \in 1 .. Len(arr) |-> Zero]],
                          i, arr, Retrieve(qt, n4), 1)
    IN  [n |-> Bounce(Integrate(c5.n), in.w, in.h), got |-> c5.got]

\* The particle loop with every pass reading a copy of the array taken before
\* the loop (a variant C9 must tell apart).
NodeLoopSnapshot(a, i, qt, in) ==
    [arr |-> [k \in 1 .. Len(a.arr) |-> StepNode(a.arr, k, qt, in).n],
     pushes |-> [k \in 1 .. Len(a.arr) |-> StepNode(a.arr, k, qt, in).got]]

RECURSIVE NodeLoop(_, _, _, _)
\* for (let i = 0; i < nodes.length; i++): each particle is updated in place.
\* a is [arr, pushes]: the array, and for every particle already processed the
\* pushes of its pass.
NodeLoop(a, i, qt, in) ==
    IF i > Len(a.arr) THEN a
    ELSE LET st == StepNode(a.arr, i, qt, in)
         IN  NodeLoop([arr |-> [a.arr EXCEPT ![i] = st.n],
                       pushes |-> [a.pushes EXCEPT ![i] = st.got]],
                      i + 1, qt, in)

NoPushes(arr) == [i \in 1 .. Len(arr) |-> [k \in 1 .. Len(arr) |-> Zero]]

\* shockwaves.filter(s => now - s.time < 400)
RECURSIVE FilterLate(_, _)
\* A filter that keeps a shockwave one instant longer, now - s.time <= 400 (a
\* variant C8 must tell apart).
FilterLate(sws, t) ==
    IF sws = << >> THEN << >>
    ELSE IF t - Head(sws).time <= SHOCK_LIFE
         THEN << Head(sws) >> \o FilterLate(Tail(sws), t)
         ELSE FilterLate(Tail(sws), t)

RECURSIVE Filter(_, _)
Filter(sws, t) ==
    IF sws = << >> THEN << >>
    ELSE IF t - Head(sws).time < SHOCK_LIFE
         THEN << Head(sws) >> \o Filter(Tail(sws), t)
         ELSE Filter(Tail(sws), t)

(***************************************************************************)
(* generateNodes.  Math.random() is an input: a draw is a record of eight  *)
(* numerators k, each standing for the random number k / 64, one per call  *)
(* of Math.random() in the loop body, in the order of the calls.           *)
(***************************************************************************)
\* (k / 64) * v
Rnd(k, v) == Div(k * v, 64)

\* 1000 * Math.cos(2 * PI * k / 64) for a whole number of eighths of a turn.
Cos1000(k) ==
    CASE k = 0 -> 1000 [] k = 8 -> 707 [] k = 16 -> 0 [] k = 24 -> -707
      [] k = 32 -> -1000 [] k = 40 -> -707 [] k = 48 -> 0 [] k = 56 -> 707

\* 1000 * Math.sin(2 * PI * k / 64)
Sin1000(k) == Cos1000((k + 48) % 64)

\* The object pushed by one pass of the loop of generateNodes.
NewNode(u, w, h, cx, cy) ==
    LET dist == Px(50) + Div(Rnd(u.dist, Min(w, h)) * 35, 100)
    IN  [x |-> Rnd(u.x, w),
         y |-> -Px(50) - Rnd(u.y, h),
         homeX |-> cx + Div(Cos1000(u.angle) * dist, 1000),
         homeY |-> cy + Div(Sin1000(u.angle) * dist, 1000),
         vx |-> Div((2 * u.vx - 64) * SCALE, 64),
         vy |-> Rnd(u.vy, 3 * SCALE),
         r |-> Px(4) + Rnd(u.r, 12 * SCALE),
         color |-> COLORS[(u.color * Len(COLORS)) \div 64 + 1]]

\* generateNodes with a loop that stops one pass early (a variant C13 must tell
\* apart).
GenerateNodesShort(stream, w, h, cx, cy) ==
    [i \in 1 .. BALL_COUNT - 1 |->
        NewNode(stream[((i - 1) % Len(stream)) + 1], w, h, cx, cy)]

\* generateNodes that creates nothing for a window without area (a variant C20
\* must tell apart).
GenerateNodesGuarded(stream, w, h, cx, cy) ==
    IF w = 0 \/ h = 0 THEN << >>
    ELSE [i \in 1 .. BALL_COUNT |->
             NewNode(stream[((i - 1) % Len(stream)) + 1], w, h, cx, cy)]

\* generateNodes: BALL_COUNT new particles.  The random numbers come from a
\* stream: a sequence of draws that pass i reads at place i, cyclically.
GenerateNodes(stream, w, h, cx, cy) ==
    [i \in 1 .. BALL_COUNT |->
        NewNode(stream[((i - 1) % Len(stream)) + 1], w, h, cx, cy)]

(***************************************************************************)
(* The inputs the model enumerates.                                        *)
(***************************************************************************)
\* Draws of Math.random(): DrawA and DrawB land 5 px apart (in a window 320 px
\* wide), within collision range of each other; DrawC lands far from both.
DrawA == [angle |-> 0, dist |-> 0, x |-> 32, y |-> 0, vx |-> 32, vy |-> 0,
          r |-> 0, color |-> 0]

DrawB == [angle |-> 16, dist |-> 32, x |-> 33, y |-> 0, vx |-> 32, vy |-> 22,
          r |-> 32, color |-> 32]

DrawC == [angle |-> 40, dist |-> 63, x |-> 8, y |-> 16, vx |-> 0, vy |-> 0,
          r |-> 63, color |-> 63]

\* Streams of draws.
Streams == { <<DrawA, DrawB>>, <<DrawB, DrawA>> }

\* Window sizes <<innerWidth, innerHeight>> in pixels.
Viewports == { <<320, 256>>, <<16, 16>> }

\* Pointer and click positions <<clientX, clientY>> in pixels.
Points == { <<160, 10>> }

\* <<top, height>> of the hero's bounding rectangle, in pixels.
HeroRects == { <<0, 600>>, <<-180, 600>>, <<0, 0>> }

(***************************************************************************)
(* The state of initHeroCanvas and of its host.                            *)
(***************************************************************************)
VARIABLES
    width, height, centerX, centerY,  \* let width, height, centerX, centerY
    nodes,            \* let nodes: the particle array
    shockwaves,       \* let shockwaves: records [x, y, time]
    mouseX, mouseY,   \* let mouseX, mouseY
    scrollProgress,   \* let scrollProgress, in thousandths, or NaN
    isVisible,        \* let isVisible
    animationId,      \* let animationId: the handle of the last request
    rafQueue,         \* host: handles of the frame callbacks requested and not
                      \* yet run or cancelled, oldest first
    hidden,           \* host: document.hidden
    innerWidth, innerHeight,  \* host: window.innerWidth, window.innerHeight
    now,              \* host: performance.now()
    last,             \* let last of throttle(resize, 150)
    surface,          \* host: what the canvas shows
    frameLog,         \* the steps the last call of draw took, in order
    lastTick,         \* of the last call of simulate: the particles before it,
                      \* the time it read, the number of shockwaves it removed,
                      \* the pushes of its collision step and the pauses
                      \* before it
    ticks,            \* number of calls of simulate so far
    sinceShow,        \* number of calls of simulate since the visibilitychange
                      \* listener last requested a frame (-1: it has not, or
                      \* the document was hidden since)
    pausedAt,         \* the pauses since the last call of simulate: at is the
                      \* time the loop first stopped ticking (-1: it has not),
                      \* from the time the current pause began (-1: the loop
                      \* runs), off the length in ms of the pauses that ended
    steps             \* number of steps taken so far

vars == << width, height, centerX, centerY, nodes, shockwaves, mouseX, mouseY,
           scrollProgress, isVisible, animationId, rafQueue, hidden, innerWidth,
           innerHeight, now, last, surface, frameLog, lastTick, ticks, sinceShow,
           pausedAt, steps >>

\* The canvas after its width or height is set: the bitmap is cleared.
Blank == [fill |-> "", w |-> 0, h |-> 0, circles |-> << >>]

Range(s) == {s[k] : k \in 1 .. Len(s)}

\* The handle requestAnimationFrame returns.  The program only stores a handle
\* and passes it to cancelAnimationFrame, so the model names a new request by
\* the least positive number that is neither the handle of a pending request
\* nor the stored one.
NewHandle(queue, id) ==
    CHOOSE k \in 1 .. Len(queue) + 2 :
        /\ k \notin Range(queue) \cup {id}
        /\ \A j \in 1 .. k - 1 : j \in Range(queue) \cup {id}

\* A cancelAnimationFrame that cancels nothing (a variant C4 must tell apart).
CancelNothing(queue, id) == queue

\* cancelAnimationFrame(id)
Cancel(queue, id) == SelectSeq(queue, LAMBDA k : k # id)

(***************************************************************************)
(* draw and simulate.  A call works on a frame record f: the variables the *)
(* call reads or writes, the tree qt of simulate, and the log of the steps *)
(* taken.                                                                  *)
(***************************************************************************)
\* Inputs that also depend on the handle of the pending frame request (a
\* variant C16 must tell apart).
InputsByHandle(f) ==
    [w |-> f.width, h |-> f.height, cx |-> f.centerX, cy |-> f.centerY,
     mx |-> f.mouseX, my |-> f.mouseY, sp |-> f.scrollProgress + f.animationId,
     sws |-> f.shockwaves, now |-> f.now]

\* The inputs a tick reads: [w, h, cx, cy, mx, my, sp, sws, now], that is width,
\* height, centerX, centerY, mouseX, mouseY, scrollProgress, shockwaves and the
\* value of performance.now() read before the loop.
Inputs(f) ==
    [w |-> f.width, h |-> f.height, cx |-> f.centerX, cy |-> f.centerY,
     mx |-> f.mouseX, my |-> f.mouseY, sp |-> f.scrollProgress,
     sws |-> f.shockwaves, now |-> f.now]

\* const qt = new QuadTree(0, 0, width, height); qt.insert(nodes[i]) for every i
IndexStep(f) ==
    [f EXCEPT !.qt = BuildTree(f.nodes, f.width, f.height),
              !.log = Append(@, "index")]

\* shockwaves = shockwaves.filter(s => now - s.time < 400)
PruneStep(f) ==
    [f EXCEPT !.shockwaves = Filter(@, f.now), !.log = Append(@, "prune")]

\* The particle loop.
ForceStep(f) ==
    LET a == NodeLoop([arr |-> f.nodes, pushes |-> NoPushes(f.nodes)], 1, f.qt,
                      Inputs(f))
    IN  [f EXCEPT !.nodes = a.arr, !.pushes = a.pushes, !.log = Append(@, "forces")]

\* simulate with the filter of the shockwaves moved before the tree is built
\* (a variant C7 must tell apart).
SimulatePruneFirst(f) == ForceStep(IndexStep(PruneStep(f)))

\* simulate
Simulate(f) == ForceStep(PruneStep(IndexStep(f)))

\* glowFactor of a particle, in thousandths.
Glow(n, mx, my) ==
    LET gdx == n.x - mx
        gdy == n.y - my
    IN  IF InRange(gdx, gdy, Px(GLOW_RANGE))
        THEN Div(1000 * (Px(GLOW_RANGE) - Sqrt(gdx * gdx + gdy * gdy)), Px(GLOW_RANGE))
        ELSE 0

\* The circle drawn for a particle.  baseAlpha = Math.max(0, 0.6 * (1 - scrollProgress));
\* a NaN assigned to globalAlpha is ignored, which leaves the 1.0 the last frame set.
Circle(n, mx, my, sp) ==
    LET glow == Glow(n, mx, my)
        baseAlpha == Max(0, Div(600 * (SP_DEN - sp), SP_DEN))
    IN  [x |-> n.x, y |-> n.y,
         r |-> n.r + Div(n.r * glow * 5, 100000),
         color |-> n.color,
         alpha |-> IF sp = NaN THEN 1000 ELSE Min(1000, baseAlpha + Div(glow * 8, 100))]

\* Clear, then draw every particle.
RenderStep(f) ==
    [f EXCEPT !.surface =
                 [fill |-> "#111111", w |-> f.width, h |-> f.height,
                  circles |-> [i \in 1 .. Len(f.nodes) |->
                      Circle(f.nodes[i], f.mouseX, f.mouseY, f.scrollProgress)]],
              !.log = Append(@, "render")]

\* The end of draw without its requestAnimationFrame (a variant C5 must tell
\* apart).
ScheduleNothing(f) == [f EXCEPT !.log = Append(@, "schedule")]

\* animationId = requestAnimationFrame(draw)
ScheduleStep(f) ==
    LET id == NewHandle(f.rafQueue, f.animationId)
    IN  [f EXCEPT !.animationId = id, !.rafQueue = Append(@, id),
                  !.log = Append(@, "schedule")]

\* draw without the test of isVisible (a variant C2 must tell apart).
DrawAlways(f) == ScheduleStep(RenderStep(Simulate(f)))

\* draw that still renders when isVisible is false (a variant C6 must tell
\* apart).
DrawRenderPaused(f) ==
    IF ~f.isVisible THEN ScheduleStep(RenderStep(f))
    ELSE ScheduleStep(RenderStep(Simulate(f)))

\* draw
DrawFrame(f) ==
    IF ~f.isVisible THEN ScheduleStep(f)
    ELSE ScheduleStep(RenderStep(Simulate(f)))

\* pausedAt when the loop has ticked since it last paused.
NoPause == [at |-> -1, from |-> -1, off |-> 0]

\* pausedAt after a listener has run: the loop runs while the canvas is in view
\* (isVisible) and the document is shown (not hidden).
PauseStep(wasRunning, isRunning) ==
    IF wasRunning /\ ~isRunning
    THEN [pausedAt EXCEPT !.at = IF @ = -1 THEN now ELSE @, !.from = now]
    ELSE IF ~wasRunning /\ isRunning
    THEN [pausedAt EXCEPT !.off = @ + (now - pausedAt.from), !.from = -1]
    ELSE pausedAt

\* The frame record of a call of draw that the host makes for the request at
\* the head of the queue.
Frame ==
    [width |-> width, height |-> height, centerX |-> centerX, centerY |-> centerY,
     nodes |-> nodes, shockwaves |-> shockwaves, mouseX |-> mouseX,
     mouseY |-> mouseY, scrollProgress |-> scrollProgress, isVisible |-> isVisible,
     animationId |-> animationId, rafQueue |-> Tail(rafQueue), now |-> now,
     surface |-> surface, qt |-> << >>, pushes |-> << >>, log |-> << >>]

(***************************************************************************)
(* Actions: one per callback the program registers, and the clock.         *)
(***************************************************************************)
\* The host runs the oldest pending frame callback.  A hidden document gets no
\* animation frames.
FrameCallback ==
    /\ steps < MaxSteps
    /\ steps' = steps + 1
    /\ ~hidden
    /\ rafQueue # << >>
    /\ LET f == DrawFrame(Frame)
       IN  /\ nodes' = f.nodes
           /\ shockwaves' = f.shockwaves
           /\ surface' = f.surface
           /\ animationId' = f.animationId
           /\ rafQueue' = f.rafQueue
           /\ frameLog' = f.log
           /\ lastTick' = IF isVisible
                          THEN [before |-> nodes, at |-> now,
                                pruned |-> Len(shockwaves) - Len(f.shockwaves),
                                pushes |-> f.pushes, pause |-> pausedAt]
                          ELSE lastTick
    /\ ticks' = IF isVisible THEN ticks + 1 ELSE ticks
    /\ sinceShow' = IF isVisible /\ sinceShow >= 0 THEN sinceShow + 1 ELSE sinceShow
    /\ pausedAt' = IF isVisible THEN NoPause ELSE pausedAt
    /\ UNCHANGED << width, height, centerX, centerY, mouseX, mouseY, scrollProgress,
                    isVisible, hidden, innerWidth, innerHeight, now, last >>

\* A pointer listener that also drags the first particle to the pointer (a
\* variant C15 must tell apart).
PointerMoveDrag ==
    /\ steps < MaxSteps
    /\ steps' = steps + 1
    /\ \E p \in Points :
          /\ mouseX' = Px(p[1])
          /\ mouseY' = Px(p[2])
          /\ nodes' = [nodes EXCEPT ![1].x = Px(p[1]), ![1].y = Px(p[2])]
    /\ UNCHANGED << width, height, centerX, centerY, shockwaves,
                    scrollProgress, isVisible, animationId, rafQueue, hidden,
                    innerWidth, innerHeight, now, last, surface, frameLog, lastTick,
                    ticks, sinceShow, pausedAt >>

\* mousemove on the document, touchmove on the hero
PointerMove ==
    /\ steps < MaxSteps
    /\ steps' = steps + 1
    /\ \E p \in Points : mouseX' = Px(p[1]) /\ mouseY' = Px(p[2])
    /\ UNCHANGED << width, height, centerX, centerY, nodes, shockwaves,
                    scrollProgress, isVisible, animationId, rafQueue, hidden,
                    innerWidth, innerHeight, now, last, surface, frameLog, lastTick,
                    ticks, sinceShow, pausedAt >>

\* mouseleave on the document, touchend on the hero
PointerLeave ==
    /\ steps < MaxSteps
    /\ steps' = steps + 1
    /\ mouseX' = Px(OFFSCREEN_PX)
    /\ mouseY' = Px(OFFSCREEN_PX)
    /\ UNCHANGED << width, height, centerX, centerY, nodes, shockwaves,
                    scrollProgress, isVisible, animationId, rafQueue, hidden,
                    innerWidth, innerHeight, now, last, surface, frameLog, lastTick,
                    ticks, sinceShow, pausedAt >>

\* A push that keeps at most two shockwaves, dropping the oldest (a variant
\* C18 must tell apart).
PushShockCapped(sws, p, t) ==
    LET s == [x |-> Px(p[1]), y |-> Px(p[2]), time |-> t]
    IN  IF Len(sws) >= 2 THEN Append(Tail(sws), s) ELSE Append(sws, s)

\* shockwaves.push({ x: e.clientX, y: e.clientY, time: performance.now() })
PushShock(sws, p, t) == Append(sws, [x |-> Px(p[1]), y |-> Px(p[2]), time |-> t])

\* click on the hero, or touchstart with touches fingers down
Click ==
    /\ steps < MaxSteps
    /\ steps' = steps + 1
    /\ \E p \in Points, touches \in 1 .. 2 :
          shockwaves' = IF touches = 1 THEN PushShock(shockwaves, p, now)
                        ELSE shockwaves
    /\ UNCHANGED << width, height, centerX, centerY, nodes, mouseX, mouseY,
                    scrollProgress, isVisible, animationId, rafQueue, hidden,
                    innerWidth, innerHeight, now, last, surface, frameLog, lastTick,
                    ticks, sinceShow, pausedAt >>

\* clamp(-rect.top / (heroH * 0.6), 0, 1) in thousandths.  A zero height divides
\* by zero: the quotient is +Infinity, -Infinity or (0 / 0) NaN.
ScrollValue(top, heroH) ==
    IF heroH = 0
    THEN (IF top < 0 THEN SP_DEN ELSE IF top > 0 THEN 0 ELSE NaN)
    ELSE clamp(Div(-top * 10 * SP_DEN, heroH * 6), 0, SP_DEN)

\* scroll on the window
Scroll ==
    /\ steps < MaxSteps
    /\ steps' = steps + 1
    /\ \E rect \in HeroRects : scrollProgress' = ScrollValue(rect[1], rect[2])
    /\ UNCHANGED << width, height, centerX, centerY, nodes, shockwaves, mouseX,
                    mouseY, isVisible, animationId, rafQueue, hidden, innerWidth,
                    innerHeight, now, last, surface, frameLog, lastTick,
                    ticks, sinceShow, pausedAt >>

\* The IntersectionObserver callback: isVisible = entries[0].isIntersecting.
\* Observations are delivered with the frames, so not to a hidden document.
Intersection ==
    /\ steps < MaxSteps
    /\ steps' = steps + 1
    /\ ~hidden
    /\ \E b \in BOOLEAN :
          /\ isVisible' = b
          /\ pausedAt' = PauseStep(isVisible /\ ~hidden, b /\ ~hidden)
    /\ UNCHANGED << width, height, centerX, centerY, nodes, shockwaves, mouseX,
                    mouseY, scrollProgress, animationId, rafQueue, hidden,
                    innerWidth, innerHeight, now, last, surface, frameLog, lastTick,
                    ticks, sinceShow >>

\* A visibilitychange listener that also clears the shockwaves when the
\* document is hidden (a variant C17 must tell apart).
VisibilityChangeReset ==
    /\ steps < MaxSteps
    /\ steps' = steps + 1
    /\ hidden' = ~hidden
    /\ shockwaves' = IF hidden' THEN << >> ELSE shockwaves
    /\ IF hidden'
       THEN /\ rafQueue' = Cancel(rafQueue, animationId)
            /\ UNCHANGED animationId
       ELSE IF isVisible
       THEN LET id == NewHandle(rafQueue, animationId)
            IN  /\ animationId' = id
                /\ rafQueue' = Append(rafQueue, id)
       ELSE UNCHANGED << animationId, rafQueue >>
    /\ sinceShow' = IF ~hidden' /\ isVisible THEN 0 ELSE -1
    /\ pausedAt' = PauseStep(isVisible /\ ~hidden, isVisible /\ ~hidden')
    /\ UNCHANGED << width, height, centerX, centerY, nodes, mouseX,
                    mouseY, scrollProgress, isVisible, innerWidth, innerHeight,
                    now, last, surface, frameLog, lastTick, ticks >>

\* visibilitychange on the document: the host flips document.hidden, then the
\* listener runs.
VisibilityChange ==
    /\ steps < MaxSteps
    /\ steps' = steps + 1
    /\ hidden' = ~hidden
    /\ IF hidden'
       THEN /\ rafQueue' = Cancel(rafQueue, animationId)
            /\ UNCHANGED animationId
       ELSE IF isVisible
       THEN LET id == NewHandle(rafQueue, animationId)
            IN  /\ animationId' = id
                /\ rafQueue' = Append(rafQueue, id)
       ELSE UNCHANGED << animationId, rafQueue >>
    /\ sinceShow' = IF ~hidden' /\ isVisible THEN 0 ELSE -1
    /\ pausedAt' = PauseStep(isVisible /\ ~hidden, isVisible /\ ~hidden')
    /\ UNCHANGED << width, height, centerX, centerY, nodes, shockwaves, mouseX,
                    mouseY, scrollProgress, isVisible, innerWidth, innerHeight,
                    now, last, surface, frameLog, lastTick, ticks >>

\* resize(): the size of the window is read, the canvas is resized (which
\* clears it) and the particles are generated anew.
ResizeTo(w, h, us) ==
    /\ width' = Px(w)
    /\ height' = Px(h)
    /\ centerX' = Px(w) \div 2
    /\ centerY' = Px(h) \div 2
    /\ surface' = Blank
    /\ nodes' = GenerateNodes(us, Px(w), Px(h), Px(w) \div 2, Px(h) \div 2)

\* A throttle that lets every call through (a variant C22 must tell apart).
ThrottleOpen(t, l, wait) == t - l >= 0

\* throttle: if (now - last >= wait), with last the time of the last call let
\* through (0 before the first).
Throttle(t, l, wait) == t - l >= wait

\* resize on the window: the host sets the window's size, then the listener
\* throttle(resize, 150) runs.
WindowResize ==
    /\ steps < MaxSteps
    /\ steps' = steps + 1
    /\ \E v \in Viewports :
          /\ innerWidth' = v[1]
          /\ innerHeight' = v[2]
          /\ IF Throttle(now, last, RESIZE_WAIT)
             THEN /\ last' = now
                  /\ \E us \in Streams : ResizeTo(v[1], v[2], us)
             ELSE UNCHANGED << last, width, height, centerX, centerY, surface, nodes >>
    /\ UNCHANGED << shockwaves, mouseX, mouseY, scrollProgress, isVisible,
                    animationId, rafQueue, hidden, now, frameLog, lastTick,
                    ticks, sinceShow, pausedAt >>

\* Time passes.
AdvanceClock ==
    /\ steps < MaxSteps
    /\ steps' = steps + 1
    /\ now' = now + ClockStep
    /\ UNCHANGED << width, height, centerX, centerY, nodes, shockwaves, mouseX,
                    mouseY, scrollProgress, isVisible, animationId, rafQueue, hidden,
                    innerWidth, innerHeight, last, surface, frameLog, lastTick,
                    ticks, sinceShow, pausedAt >>

\* A shorter time passes.
ShortWait ==
    /\ steps < MaxSteps
    /\ steps' = steps + 1
    /\ now' = now + ShortStep
    /\ UNCHANGED << width, height, centerX, centerY, nodes, shockwaves, mouseX,
                    mouseY, scrollProgress, isVisible, animationId, rafQueue, hidden,
                    innerWidth, innerHeight, last, surface, frameLog, lastTick,
                    ticks, sinceShow, pausedAt >>

\* lastTick before the first call of simulate.
NoTick == [before |-> << >>, at |-> 0, pruned |-> 0, pushes |-> << >>,
           pause |-> NoPause]

\* The state when initHeroCanvas returns: resize() has run for the window's
\* size, one frame callback is requested, and no listener has run yet.  The
\* page loads in the foreground or in a hidden tab.
Init ==
    /\ \E v \in Viewports, us \in Streams :
          /\ innerWidth = v[1]
          /\ innerHeight = v[2]
          /\ width = Px(v[1])
          /\ height = Px(v[2])
          /\ centerX = Px(v[1]) \div 2
          /\ centerY = Px(v[2]) \div 2
          /\ nodes = GenerateNodes(us, Px(v[1]), Px(v[2]), Px(v[1]) \div 2, Px(v[2]) \div 2)
    /\ shockwaves = << >>
    /\ mouseX = Px(OFFSCREEN_PX)
    /\ mouseY = Px(OFFSCREEN_PX)
    /\ scrollProgress = 0
    /\ isVisible = TRUE
    /\ animationId = 1
    /\ rafQueue = << 1 >>
    /\ hidden \in BOOLEAN
    /\ now = 0
    /\ last = 0
    /\ surface = Blank
    /\ frameLog = << >>
    /\ lastTick = NoTick
    /\ ticks = 0
    /\ sinceShow = -1
    /\ pausedAt = IF hidden THEN [at |-> now, from |-> now, off |-> 0] ELSE NoPause
    /\ steps = 0

Next ==
    \/ FrameCallback
    \/ PointerMove
    \/ PointerLeave
    \/ Click
    \/ Scroll
    \/ Intersection
    \/ VisibilityChange
    \/ WindowResize
    \/ AdvanceClock

Spec == Init /\ [][Next]_vars

(***************************************************************************)
(* The simulation on its own: the frames of a page that stays visible and  *)
(* is not resized, started from states the listeners above produce (a      *)
(* window size, a pointer position, a scroll progress, clicks made at 0 ms *)
(* and at 200 ms), for a wider choice of sizes and particles.              *)
(***************************************************************************)
TickViewports == Viewports \cup { <<0, 0>>, <<0, 256>>, <<40, 300>> }

TickStreams == Streams \cup { <<DrawA>>, <<DrawC, DrawB>>, <<DrawB, DrawC>> }

\* The pointer off the page, over the hero, or at the top of the window where
\* the particles land (within a pixel of one of them after a tick).
TickPointers == { <<OFFSCREEN_PX, OFFSCREEN_PX>>, <<160, 4>> } \cup Points

Shock(p, t) == [x |-> Px(p[1]), y |-> Px(p[2]), time |-> t]

TickShocks ==
    { << >>, << Shock(<<160, 10>>, 0) >>,
      << Shock(<<160, 10>>, 0), Shock(<<120, 40>>, ClockStep) >> }

InitTick ==
    /\ \E v \in TickViewports, us \in TickStreams :
          /\ innerWidth = v[1]
          /\ innerHeight = v[2]
          /\ width = Px(v[1])
          /\ height = Px(v[2])
          /\ centerX = Px(v[1]) \div 2
          /\ centerY = Px(v[2]) \div 2
          /\ nodes = GenerateNodes(us, Px(v[1]), Px(v[2]), Px(v[1]) \div 2, Px(v[2]) \div 2)
    /\ shockwaves \in TickShocks
    /\ \E p \in TickPointers : mouseX = Px(p[1]) /\ mouseY = Px(p[2])
    /\ scrollProgress \in { ScrollValue(r[1], r[2]) : r \in HeroRects }
    /\ isVisible = TRUE
    /\ animationId = 1
    /\ rafQueue = << 1 >>
    /\ hidden = FALSE
    /\ now = ClockStep
    /\ last = 0
    /\ surface = Blank
    /\ frameLog = << >>
    /\ lastTick = NoTick
    /\ ticks = 0
    /\ sinceShow = -1
    /\ pausedAt = NoPause
    /\ steps = 0

NextTick ==
    \/ FrameCallback
    \/ AdvanceClock

SpecTick == InitTick /\ [][NextTick]_vars

(***************************************************************************)
(* The quadtree on its own: the frames of populations large enough for the *)
(* tree to split (ten particles; the model's BALL_COUNT never fills a      *)
(* node).  A population is eight particles at rest at their homes, spread  *)
(* over the four quadrants of a 320 x 256 window or clustered in its       *)
(* bottom right quadrant, and two more out of a list of particles placed   *)
(* on, against and beside the midlines.                                    *)
(***************************************************************************)
\* A particle at rest at its home; x, y and r in pixels.
Ball(x, y, r) ==
    [x |-> Px(x), y |-> Px(y), homeX |-> Px(x), homeY |-> Px(y), vx |-> 0, vy |-> 0,
     r |-> Px(r), color |-> COLORS[1]]

SpreadBalls ==
    << Ball(40, 30, 5), Ball(100, 90, 6), Ball(220, 30, 5), Ball(280, 90, 6),
       Ball(40, 170, 5), Ball(100, 220, 6), Ball(220, 170, 5), Ball(280, 220, 6) >>

ClusterBalls ==
    << Ball(180, 140, 4), Ball(200, 150, 5), Ball(230, 145, 4), Ball(260, 160, 6),
       Ball(290, 150, 5), Ball(180, 220, 4), Ball(210, 235, 5), Ball(250, 225, 6) >>

ExtraBalls ==
    { Ball(160, 128, 8), Ball(150, 60, 10), Ball(170, 60, 10), Ball(171, 60, 10),
      Ball(222, 172, 6), Ball(185, 143, 5), Ball(250, 192, 8), Ball(100, 150, 15),
      Ball(157, 171, 5), Ball(166, 172, 5), Ball(200, -50, 6) }

\* Ten small particles crowded into one cell of the sixth level of the tree of
\* a window of 1024 by 1024 pixels (nine of them in one quadrant of it).
DeepBalls ==
    << Ball(326, 326, 4), Ball(328, 326, 4), Ball(330, 326, 4),
       Ball(326, 328, 4), Ball(328, 328, 4), Ball(330, 328, 4),
       Ball(326, 330, 4), Ball(328, 330, 4), Ball(330, 330, 4),
       Ball(328, 344, 4) >>

\* <<innerWidth, innerHeight, nodes>>
TreePopulations ==
    { <<320, 256, base \o << a, b >>>> :
         base \in {SpreadBalls, ClusterBalls}, a \in ExtraBalls, b \in ExtraBalls }
    \cup { <<1024, 1024, DeepBalls>> }

InitTree ==
    /\ \E pop \in TreePopulations :
          /\ innerWidth = pop[1]
          /\ innerHeight = pop[2]
          /\ width = Px(pop[1])
          /\ height = Px(pop[2])
          /\ centerX = Px(pop[1]) \div 2
          /\ centerY = Px(pop[2]) \div 2
          /\ nodes = pop[3]
    /\ shockwaves = << >>
    /\ mouseX = Px(OFFSCREEN_PX)
    /\ mouseY = Px(OFFSCREEN_PX)
    /\ scrollProgress = 0
    /\ isVisible = TRUE
    /\ animationId = 1
    /\ rafQueue = << 1 >>
    /\ hidden = FALSE
    /\ now = 0
    /\ last = 0
    /\ surface = Blank
    /\ frameLog = << >>
    /\ lastTick = NoTick
    /\ ticks = 0
    /\ sinceShow = -1
    /\ pausedAt = NoPause
    /\ steps = 0

SpecTree == InitTree /\ [][NextTick]_vars

(***************************************************************************)
(* Pausing: a page in the foreground on which the hero has just been       *)
(* clicked, then hidden or scrolled out of view and shown again while the  *)
(* clock runs.                                                             *)
(***************************************************************************)
InitPause ==
    /\ \E us \in Streams :
          /\ innerWidth = 320
          /\ innerHeight = 256
          /\ width = Px(320)
          /\ height = Px(256)
          /\ centerX = Px(320) \div 2
          /\ centerY = Px(256) \div 2
          /\ nodes = GenerateNodes(us, Px(320), Px(256), Px(320) \div 2, Px(256) \div 2)
    /\ \E p \in Points : shockwaves = PushShock(<< >>, p, 0)
    /\ mouseX = Px(OFFSCREEN_PX)
    /\ mouseY = Px(OFFSCREEN_PX)
    /\ scrollProgress = 0
    /\ isVisible = TRUE
    /\ animationId = 1
    /\ rafQueue = << 1 >>
    /\ hidden = FALSE
    /\ now = 0
    /\ last = 0
    /\ surface = Blank
    /\ frameLog = << >>
    /\ lastTick = NoTick
    /\ ticks = 0
    /\ sinceShow = -1
    /\ pausedAt = NoPause
    /\ steps = 0

NextPause ==
    \/ FrameCallback
    \/ Click
    \/ Intersection
    \/ VisibilityChange
    \/ AdvanceClock

SpecPause == InitPause /\ [][NextPause]_vars

(***************************************************************************)
(* Resizing: the window is resized in bursts, with events closer together  *)
(* than the wait of the throttle, while the frames run.                    *)
(***************************************************************************)
NextResize ==
    \/ FrameCallback
    \/ WindowResize
    \/ AdvanceClock
    \/ ShortWait

SpecResize == Init /\ [][NextResize]_vars

\* The same with time that keeps passing.  Resize events come only when the
\* user resizes the window, so nothing is assumed about them.
SpecResizeFair == SpecResize /\ WF_vars(AdvanceClock)

(***************************************************************************)
(* The claims.  C1, C7 to C10, C19 and C20 are about simulate and are      *)
(* checked under SpecTick; C2 to C6, C13 to C16, C18, C21, C25 and C29 are *)
(* about the loop and the listeners and are checked under Spec; C11, C12,  *)
(* C23, C24, C26 and C27 are about the quadtree and the collisions and are *)
(* checked under SpecTree; C17 is about pausing and is checked under       *)
(* SpecPause; C22 and C28 are about the throttle and are checked under     *)
(* SpecResize and SpecResizeFair.                                          *)
(***************************************************************************)
Particles == 1 .. Len(nodes)

LastOf(q) == q[Len(q)]

Neg(v) == [vx |-> -v.vx, vy |-> -v.vy]

\* The inputs the last call of simulate gave to the particle loop, read back
\* from a state of SpecTick (where only a frame changes them).
TickInputs ==
    [w |-> width, h |-> height, cx |-> centerX, cy |-> centerY, mx |-> mouseX,
     my |-> mouseY, sp |-> scrollProgress, sws |-> shockwaves, now |-> lastTick.at]

\* The array the pass of particle i found in the last tick if every pass
\* before it had already written its particle.
ArrayAtPass(i) == [j \in Particles |-> IF j < i THEN nodes[j] ELSE lastTick.before[j]]

\* C1 as the spec states it: after every tick every particle p has
\* p.r <= p.x <= width - p.r and p.r <= p.y <= height - p.r, for any viewport.
C1_Contained ==
    ticks > 0 =>
        \A i \in Particles :
            /\ nodes[i].r <= nodes[i].x /\ nodes[i].x <= width - nodes[i].r
            /\ nodes[i].r <= nodes[i].y /\ nodes[i].y <= height - nodes[i].r

\* C1, amended: after every tick p.x <= width - p.r and p.y <= height - p.r;
\* p.r <= p.x holds when width >= 2 * p.r and p.r <= p.y when
\* height >= 2 * p.r; in a narrower viewport p.x = width - p.r, resp.
\* p.y = height - p.r, which is less than p.r.
C1_ContainedWhenFits ==
    ticks > 0 =>
        \A i \in Particles :
            LET p == nodes[i]
            IN  /\ p.x <= width - p.r
                /\ p.y <= height - p.r
                /\ IF 2 * p.r <= width THEN p.r <= p.x ELSE p.x = width - p.r
                /\ IF 2 * p.r <= height THEN p.r <= p.y ELSE p.y = height - p.r

\* A tick has put a particle, which fits the viewport, back on the top wall.
C1_Witness ==
    /\ ticks > 0
    /\ \E i \in Particles :
          /\ 2 * nodes[i].r <= width
          /\ 2 * nodes[i].r <= height
          /\ lastTick.before[i].y < nodes[i].r
          /\ nodes[i].y = nodes[i].r

\* C2: while the loop is paused (isVisible false or the document hidden) no
\* call of simulate runs and no step but a resize changes the particles, so
\* their positions and velocities at resume are those at the pause, whatever
\* frame callbacks and pointer, click or scroll events come in between.
C2_PausedNoTick ==
    [][(~isVisible \/ hidden) =>
          \/ WindowResize
          \/ (nodes' = nodes /\ ticks' = ticks /\ lastTick' = lastTick)]_vars

\* The loop was paused after a tick; a frame callback and a pointer event have
\* come since, and the particles are as the tick left them.
C2_Witness ==
    /\ ~isVisible
    /\ ticks > 0
    /\ frameLog = << "schedule" >>
    /\ mouseX # Px(OFFSCREEN_PX)
    /\ surface.circles # << >>
    /\ \A i \in Particles : nodes[i].x = surface.circles[i].x
                             /\ nodes[i].y = surface.circles[i].y

\* C3 as the spec states it: at every moment at most one frame callback is
\* pending, for a page loaded in the foreground or in a hidden tab.
C3_OnePending == Len(rafQueue) <= 1

\* C4 as the spec states it: when visibility is lost (isVisible becomes false,
\* or the document becomes hidden) no frame callback is left pending.
C4_PausedNothingPending ==
    [][((isVisible /\ ~isVisible') \/ (~hidden /\ hidden')) => rafQueue' = << >>]_vars

\* C4, amended: when the document becomes hidden the request named by
\* animationId is cancelled, nothing else, and no tick runs while it is hidden;
\* when isVisible becomes false nothing is cancelled, and a frame callback that
\* fires while isVisible is false runs no tick and requests the next frame.
C4_PausedChain ==
    [][/\ (~hidden /\ hidden') =>
             /\ rafQueue' = SelectSeq(rafQueue, LAMBDA k : k # animationId)
             /\ animationId' = animationId
       /\ hidden => ticks' = ticks
       /\ (isVisible /\ ~isVisible') =>
             /\ rafQueue' = rafQueue
             /\ animationId' = animationId
       /\ (~isVisible /\ FrameCallback) =>
             /\ ticks' = ticks
             /\ Len(rafQueue') = Len(rafQueue)
             /\ animationId' = LastOf(rafQueue')]_vars

\* The observer paused the loop, a frame callback polled, and then the document
\* was hidden, which cancelled the pending request.
C4_Witness ==
    /\ hidden
    /\ ~isVisible
    /\ ticks > 0
    /\ frameLog = << "schedule" >>
    /\ rafQueue = << >>

\* C5: when the document becomes visible while isVisible is true the listener
\* requests one frame and stores its handle; every frame callback that fires
\* while isVisible is true runs one tick and the render and requests the next
\* frame.
C5_ResumeRuns ==
    [][/\ (hidden /\ ~hidden' /\ isVisible) =>
             /\ Len(rafQueue') = Len(rafQueue) + 1
             /\ SubSeq(rafQueue', 1, Len(rafQueue)) = rafQueue
             /\ animationId' = LastOf(rafQueue')
             /\ animationId' \notin Range(rafQueue)
       /\ (isVisible /\ FrameCallback) =>
             /\ ticks' = ticks + 1
             /\ "forces" \in Range(frameLog')
             /\ "render" \in Range(frameLog')
             /\ LastOf(frameLog') = "schedule"
             /\ Len(rafQueue') = Len(rafQueue)
             /\ animationId' = LastOf(rafQueue')
             /\ animationId' \notin Range(Tail(rafQueue))]_vars

\* The document has become visible again, a callback has since run a tick and
\* a request is pending for the next one.
C5_Witness ==
    /\ sinceShow >= 1
    /\ ~hidden
    /\ isVisible
    /\ animationId \in Range(rafQueue)
    /\ surface.circles # << >>

\* C6: a frame callback that fires while isVisible is false changes no
\* particle, removes no shockwave and draws nothing; it only requests the next
\* frame.
C6_PausedFrameIdle ==
    [][(~isVisible /\ FrameCallback) =>
          /\ nodes' = nodes
          /\ shockwaves' = shockwaves
          /\ surface' = surface
          /\ lastTick' = lastTick
          /\ frameLog' = << "schedule" >>
          /\ rafQueue' = Append(Tail(rafQueue), animationId')
          /\ animationId' \notin Range(Tail(rafQueue))]_vars

\* A frame callback has fired while isVisible was false, with a shockwave in the
\* list that is 400 ms old by now.
C6_Witness ==
    /\ ~isVisible
    /\ frameLog = << "schedule" >>
    /\ rafQueue # << >>
    /\ \E k \in 1 .. Len(shockwaves) : now - shockwaves[k].time >= SHOCK_LIFE

\* C7 as the spec states it: a frame of the running loop prunes the shockwaves,
\* then rebuilds the index, then runs the forces, then renders, then schedules.
C7_PruneThenIndex ==
    ticks > 0 => frameLog = << "prune", "index", "forces", "render", "schedule" >>

\* C7, amended: a frame of the running loop rebuilds the index, then prunes the
\* shockwaves, then runs the forces and the integration, then renders (the
\* circles are drawn where the forces left the particles), then schedules the
\* next frame (the handle stored is the one requested last).
C7_IndexThenPrune ==
    ticks > 0 =>
        /\ frameLog = << "index", "prune", "forces", "render", "schedule" >>
        /\ Len(surface.circles) = Len(nodes)
        /\ \A i \in Particles : /\ surface.circles[i].x = nodes[i].x
                                /\ surface.circles[i].y = nodes[i].y
        /\ animationId = LastOf(rafQueue)

\* A frame of the running loop that moved a particle and removed no shockwave.
C7_Witness ==
    /\ ticks > 0
    /\ Len(frameLog) = 5
    /\ lastTick.pruned = 0
    /\ \E i \in Particles : nodes[i].x # lastTick.before[i].x

\* C8: a tick removes from the list exactly the shockwaves s with
\* now - s.time >= 400, and it does so before the forces: the particles come out
\* of the tick as they do from a tick over the list without those shockwaves.
C8_PruneExpired ==
    [][(isVisible /\ FrameCallback) =>
          /\ shockwaves' = SelectSeq(shockwaves, LAMBDA s : now - s.time < SHOCK_LIFE)
          /\ nodes' = NodeLoop([arr |-> nodes, pushes |-> NoPushes(nodes)], 1,
                               BuildTree(nodes, width, height),
                               [w |-> width, h |-> height, cx |-> centerX,
                                cy |-> centerY, mx |-> mouseX, my |-> mouseY,
                                sp |-> scrollProgress, sws |-> shockwaves',
                                now |-> now]).arr]_vars

\* A tick has removed a shockwave and kept a younger one.
C8_Witness ==
    /\ ticks > 0
    /\ lastTick.pruned >= 1
    /\ shockwaves # << >>
    /\ \A k \in 1 .. Len(shockwaves) : lastTick.at - shockwaves[k].time < SHOCK_LIFE

\* C9 as the spec states it: the pass of every particle reads the positions all
\* other particles had before the tick.
C9_ReadsPreTick ==
    ticks > 0 =>
        \A i \in Particles :
            nodes[i] = StepNode(lastTick.before, i,
                                BuildTree(lastTick.before, width, height),
                                TickInputs).n

\* C9, amended: the pass of particle i reads, for the particles before i in the
\* array, the positions their passes of the same tick have already written,
\* and for the particles after i the positions from before the tick.
C9_ReadsUpdatedEarlier ==
    ticks > 0 =>
        \A i \in Particles :
            nodes[i] = StepNode(ArrayAtPass(i), i,
                                BuildTree(lastTick.before, width, height),
                                TickInputs).n

\* A tick in which the push a later particle got from an earlier one is not the
\* push the positions from before the tick give.
C9_Witness ==
    /\ ticks > 0
    /\ \E i, j \in Particles :
          /\ i < j
          /\ lastTick.pushes[j][i] # CollisionPush(lastTick.before[j], lastTick.before[i])

TickTree == BuildTree(lastTick.before, width, height)

\* The circles of two particles touch or overlap.
Overlap(p, q) ==
    (p.x - q.x) * (p.x - q.x) + (p.y - q.y) * (p.y - q.y) <= (p.r + q.r) * (p.r + q.r)

RECURSIVE SplitNodes(_)
\* The nodes of a tree that have children.
SplitNodes(t) ==
    IF t.children = << >> THEN {}
    ELSE {t} \cup SplitNodes(t.children[1]) \cup SplitNodes(t.children[2])
             \cup SplitNodes(t.children[3]) \cup SplitNodes(t.children[4])

\* C11: with the particles inserted into a fresh tree and not moved since,
\* retrieve(p) for an inserted p returns every inserted q whose circle touches
\* or overlaps p's, the particles kept at a node above p's included.
C11_RetrieveComplete ==
    ticks > 0 =>
        LET arr == lastTick.before
            found == [p \in 1 .. Len(arr) |-> Range(Retrieve(TickTree, arr[p]))]
        IN  \A p, q \in 1 .. Len(arr) : Overlap(arr[p], arr[q]) => q \in found[p]

\* The tree of the last tick has split; a particle that went into a child
\* overlaps one kept at the root, and retrieve returns the latter.
C11_Witness ==
    /\ ticks > 0
    /\ TickTree.children # << >>
    /\ \E p, q \in 1 .. Len(lastTick.before) :
          /\ p # q
          /\ Overlap(lastTick.before[p], lastTick.before[q])
          /\ GetIndex(TickTree, lastTick.before[p]) # -1
          /\ q \in Range(TickTree.items)
          /\ q \in Range(Retrieve(TickTree, lastTick.before[p]))

\* C12 as the spec states it: at a node with children _getIndex(p) is -1 when
\* p's box touches or straddles a midline of the node, and else the index of the
\* child whose region lies on the side of both midlines where the box lies.
C12_IndexNamesRegion ==
    ticks > 0 =>
        \A t \in SplitNodes(TickTree), i \in 1 .. Len(lastTick.before) :
            LET n == lastTick.before[i]
                mx == t.x + t.w \div 2
                my == t.y + t.h \div 2
                lox == (n.x - n.r) * QT_FRAC
                hix == (n.x + n.r) * QT_FRAC
                loy == (n.y - n.r) * QT_FRAC
                hiy == (n.y + n.r) * QT_FRAC
                idx == GetIndex(t, n)
            IN  IF (lox <= mx /\ mx <= hix) \/ (loy <= my /\ my <= hiy)
                THEN idx = -1
                ELSE /\ idx \in 0 .. 3
                     /\ LET c == t.children[idx + 1]
                        IN  /\ IF hix < mx THEN c.x + c.w <= mx ELSE c.x >= mx
                            /\ IF hiy < my THEN c.y + c.h <= my ELSE c.y >= my

\* The array holds BALL_COUNT particles, each with a colour of the palette and
\* a radius in [4, 16).
FullPopulation(arr) ==
    /\ Len(arr) = BALL_COUNT
    /\ \A i \in 1 .. Len(arr) :
          /\ arr[i].color \in Range(COLORS)
          /\ Px(4) <= arr[i].r
          /\ arr[i].r < Px(16)

\* C13: after initialisation and after every applied resize the array holds
\* exactly BALL_COUNT particles, all made anew by generateNodes from the random
\* numbers and the new size alone, each with a colour of the palette and a
\* radius in [4, 16); no other step changes the number of particles.
C13_PopulationSize ==
    /\ FullPopulation(nodes)
    /\ [][/\ FullPopulation(nodes')
          /\ (last' # last) =>
                \E us \in Streams :
                    nodes' = GenerateNodes(us, Px(innerWidth'), Px(innerHeight'),
                                           Px(innerWidth') \div 2, Px(innerHeight') \div 2)]_vars

\* A resize has been applied after a tick: the array is a fresh population for
\* the new size.
C13_Witness ==
    /\ ticks > 0
    /\ last > 0
    /\ surface = Blank
    /\ Len(nodes) = BALL_COUNT
    /\ \A i \in 1 .. Len(nodes) : nodes[i].y <= -Px(50) /\ nodes[i].x <= width

\* C14: the radius, the home and the colour of a particle never change after
\* its creation: a step that is not an applied resize (which creates the
\* particles anew) leaves them as they are, and the fields of a particle are
\* always the same eight.
C14_FixedFields ==
    [][(last' = last) =>
          /\ Len(nodes') = Len(nodes)
          /\ \A i \in 1 .. Len(nodes) :
                /\ nodes'[i].r = nodes[i].r
                /\ nodes'[i].homeX = nodes[i].homeX
                /\ nodes'[i].homeY = nodes[i].homeY
                /\ nodes'[i].color = nodes[i].color
                /\ DOMAIN nodes'[i] = DOMAIN nodes[i]]_vars

\* A tick has moved a particle and changed its velocity; its radius, home and
\* colour are those it had before.
C14_Witness ==
    /\ ticks > 0
    /\ Len(nodes) = Len(lastTick.before)
    /\ surface.circles # << >>
    /\ \E i \in 1 .. Len(nodes) :
          /\ nodes[i].x # lastTick.before[i].x
          /\ nodes[i].vx # lastTick.before[i].vx
          /\ nodes[i].r = lastTick.before[i].r
          /\ nodes[i].homeX = lastTick.before[i].homeX
          /\ nodes[i].homeY = lastTick.before[i].homeY
          /\ nodes[i].color = lastTick.before[i].color

\* C15: a step that writes input state (the pointer position, the scroll
\* progress, a new shockwave, isVisible, the visibility of the document) leaves
\* the particles, the size and the canvas as they are; the particles change
\* only in a tick, or in an applied resize, which replaces all of them at once.
C15_HandlersLeaveParticles ==
    [][/\ (\/ mouseX' # mouseX
           \/ mouseY' # mouseY
           \/ scrollProgress' # scrollProgress
           \/ Len(shockwaves') > Len(shockwaves)
           \/ isVisible' # isVisible
           \/ hidden' # hidden) =>
             /\ nodes' = nodes
             /\ ticks' = ticks
             /\ UNCHANGED << width, height, centerX, centerY, surface >>
       /\ (nodes' # nodes) =>
             \/ ticks' = ticks + 1
             \/ /\ last' # last
                /\ \E us \in Streams :
                      nodes' = GenerateNodes(us, width', height', centerX', centerY')]_vars

\* After a tick the pointer has moved, a click has been made and the page has
\* been scrolled, and the particles are where the tick drew them.
C15_Witness ==
    /\ ticks > 0
    /\ mouseX # Px(OFFSCREEN_PX)
    /\ shockwaves # << >>
    /\ scrollProgress > 0
    /\ surface.circles # << >>
    /\ \A i \in 1 .. Len(nodes) : /\ surface.circles[i].x = nodes[i].x
                                  /\ surface.circles[i].y = nodes[i].y
    /\ lastTick.at = now
    /\ \A k \in 1 .. Len(shockwaves) : shockwaves[k].time = now

C17_AgeFrozen ==
    [][(ticks' = ticks + 1 /\ pausedAt.at >= 0) =>
          \A k \in 1 .. Len(shockwaves) :
             (/\ shockwaves[k].time <= pausedAt.at
              /\ pausedAt.at - shockwaves[k].time < SHOCK_LIFE
              /\ (now - shockwaves[k].time) - pausedAt.off < SHOCK_LIFE) =>
                shockwaves[k] \in Range(shockwaves')]_vars

\* C17, amended: pausing and resuming reset no simulation state and nothing
\* but a click changes it while the loop is paused, but the age of a shockwave
\* is measured on the wall clock, pause included: the first tick after a pause
\* keeps exactly the shockwaves younger than SHOCK_LIFE by performance.now().
C17_PauseKeepsState ==
    [][/\ (isVisible' # isVisible \/ hidden' # hidden) =>
             UNCHANGED << nodes, shockwaves, mouseX, mouseY, scrollProgress >>
       /\ (pausedAt.from >= 0 /\ last' = last) =>
             /\ nodes' = nodes
             /\ ticks' = ticks
             /\ Len(shockwaves') >= Len(shockwaves)
             /\ SubSeq(shockwaves', 1, Len(shockwaves)) = shockwaves
       /\ (ticks' = ticks + 1 /\ pausedAt.at >= 0) =>
             shockwaves' = SelectSeq(shockwaves,
                                     LAMBDA s : now - s.time < SHOCK_LIFE)]_vars

\* The first tick after a pause of SHOCK_LIFE or more, run as soon as the loop
\* resumed, has removed the shockwave that was new when the loop paused.
C17_Witness ==
    /\ ticks = 1
    /\ lastTick.pause.at = 0
    /\ lastTick.pause.off >= SHOCK_LIFE
    /\ lastTick.at = lastTick.pause.off
    /\ lastTick.pruned = 1
    /\ shockwaves = << >>
    /\ nodes # lastTick.before

\* C18: the shockwave list has no upper bound.  Outside a tick the list never
\* loses an entry, and whenever it changes it has gained exactly one entry at
\* its end, stamped with the current time, whatever its length was; the list
\* gets shorter only in a tick.
C18_ShockwavesUnbounded ==
    [][/\ (ticks' = ticks) =>
             \/ shockwaves' = shockwaves
             \/ \E p \in Points :
                   shockwaves' = Append(shockwaves,
                                        [x |-> Px(p[1]), y |-> Px(p[2]), time |-> now])
       /\ (Len(shockwaves') < Len(shockwaves)) =>
             /\ ticks' = ticks + 1
             /\ shockwaves' = SelectSeq(shockwaves,
                                        LAMBDA s : now - s.time < SHOCK_LIFE)]_vars

\* Three clicks made while the loop is paused have left three entries.
C18_Witness ==
    /\ pausedAt.from >= 0
    /\ Len(shockwaves) = 3
    /\ \A k \in 1 .. Len(shockwaves) : shockwaves[k].time >= pausedAt.from

\* C19 as stated, for the pointer: a tick skips the pointer repulsion of a
\* particle whose distance to the pointer is zero or near zero (under one
\* pixel), so the repulsion leaves the velocity of such a particle as it is.
C19_NearZeroSkipped ==
    [][(ticks' = ticks + 1) =>
          \A i \in 1 .. Len(nodes) :
             LET cdx == nodes[i].x - mouseX
                 cdy == nodes[i].y - mouseY
             IN  (InRange(cdx, cdy, Px(1)) /\ cdx * cdx + cdy * cdy < Px(1) * Px(1)) =>
                    /\ CursorRepel(nodes[i], mouseX, mouseY).vx = nodes[i].vx
                    /\ CursorRepel(nodes[i], mouseX, mouseY).vy = nodes[i].vy]_vars

\* C20 as stated: while the width or the height is zero there are no
\* particles, and a tick has changed nothing.
C20_ZeroNoOp ==
    (width = 0 \/ height = 0) =>
       /\ nodes = << >>
       /\ (ticks > 0 => nodes = lastTick.before)

\* C20, amended: a window without width or height is no special case.
\* generateNodes still creates BALL_COUNT particles (at x = 0 when the width is
\* zero, 50 px above the top when the height is), and a tick simulates and
\* draws them as usual: the wall tests run in turn, so every tick leaves each
\* particle at x = -r when the width is zero and at y = -r when the height is.
C20_ZeroStillRuns ==
    (width = 0 \/ height = 0) =>
       /\ Len(nodes) = BALL_COUNT
       /\ (ticks = 0) =>
             \A i \in 1 .. Len(nodes) : /\ (width = 0) => nodes[i].x = 0
                                        /\ (height = 0) => nodes[i].y = -Px(50)
       /\ (ticks > 0) =>
             /\ \A i \in 1 .. Len(nodes) :
                   /\ (width = 0) => nodes[i].x = -nodes[i].r
                   /\ (height = 0) => nodes[i].y = -nodes[i].r
             /\ Len(surface.circles) = BALL_COUNT
             /\ surface.w = width /\ surface.h = height

\* A tick has run in a window without width and has moved the particles.
C20_Witness ==
    /\ width = 0
    /\ height > 0
    /\ ticks > 0
    /\ Len(nodes) = BALL_COUNT
    /\ \A i \in 1 .. Len(nodes) : nodes[i] # lastTick.before[i]
    /\ surface.circles # << >>

\* C21: the dispersion factor scrollProgress is a number between 0 and 1 (0 and
\* SP_DEN thousandths) in every reachable state.
C21_ScrollInRange == scrollProgress \in 0 .. SP_DEN

\* C22: two consecutive calls that throttle(resize, 150) lets through are at
\* least RESIZE_WAIT ms apart.  A step that lets a call through (it sets last)
\* comes RESIZE_WAIT or more after the previous one, and resize runs in no
\* other step: outside a tick the size and the particles change only then.
C22_ThrottleSpacing ==
    [][/\ (last' # last) => (last' = now /\ last' - last >= RESIZE_WAIT)
       /\ ((width' # width \/ height' # height \/ (ticks' = ticks /\ nodes' # nodes))
              => last' # last)]_vars

\* resize has run for an event, and a later event, less than RESIZE_WAIT after
\* it and for another size, was not passed on.
C22_Witness ==
    /\ last > 0
    /\ now - last > 0
    /\ now - last < RESIZE_WAIT
    /\ width # Px(innerWidth)
    /\ nodes # << >>

\* The square of the distance between the centres of two particles.
DistSq(p, q) == (p.x - q.x) * (p.x - q.x) + (p.y - q.y) * (p.y - q.y)

\* Two particles are within the collision threshold r1 + r2 + 1.
Colliding(p, q) ==
    /\ InRange(p.x - q.x, p.y - q.y, p.r + q.r + Px(1))
    /\ DistSq(p, q) < (p.r + q.r + Px(1)) * (p.r + q.r + Px(1))

\* No pointer, scroll or shockwave force acts in a tick run from this state.
QuietTick ==
    /\ mouseX = Px(OFFSCREEN_PX)
    /\ scrollProgress = 0
    /\ \A k \in 1 .. Len(shockwaves) : now - shockwaves[k].time >= SHOCK_LIFE

\* Particle n was clamped to no wall (it lies on none of the four clamp lines).
Unclamped(n) ==
    /\ n.x # n.r /\ n.x # width - n.r
    /\ n.y # n.r /\ n.y # height - n.r

AtRest(n) == n.x = n.homeX /\ n.y = n.homeY /\ n.vx = 0 /\ n.vy = 0

\* Particles i and j of arr collide with each other and with no third particle.
PairAlone(arr, i, j) ==
    /\ Colliding(arr[i], arr[j])
    /\ \A k \in 1 .. Len(arr) :
          k \notin {i, j} => ~Colliding(arr[i], arr[k]) /\ ~Colliding(arr[j], arr[k])

RECURSIVE AllNodes(_)
\* Every node of a tree.
AllNodes(t) ==
    IF t.children = << >> THEN {t}
    ELSE {t} \cup AllNodes(t.children[1]) \cup AllNodes(t.children[2])
             \cup AllNodes(t.children[3]) \cup AllNodes(t.children[4])

RECURSIVE Held(_)
\* The number of items a node and the nodes below it hold.
Held(t) ==
    IF t.children = << >> THEN Len(t.items)
    ELSE Len(t.items) + Held(t.children[1]) + Held(t.children[2])
             + Held(t.children[3]) + Held(t.children[4])

\* C24: in the tree a tick builds, no node is deeper than QT_MAX_DEPTH; a node
\* without children above that depth holds at most QT_CAPACITY items; and a
\* node with children was split for holding more than QT_CAPACITY items (it
\* and its children still hold them), above QT_MAX_DEPTH, into four quadrants
\* of half its width and height, one level deeper.
C24_SplitRule ==
    ticks > 0 =>
       \A t \in AllNodes(TickTree) :
          /\ t.depth <= QT_MAX_DEPTH
          /\ (t.children = << >> /\ t.depth < QT_MAX_DEPTH) => Len(t.items) <= QT_CAPACITY
          /\ (t.children # << >>) =>
                /\ t.depth < QT_MAX_DEPTH
                /\ Held(t) > QT_CAPACITY
                /\ Len(t.children) = 4
                /\ \A k \in 1 .. 4 : /\ t.children[k].depth = t.depth + 1
                                     /\ 2 * t.children[k].w = t.w
                                     /\ 2 * t.children[k].h = t.h
                /\ {<<t.children[k].x, t.children[k].y>> : k \in 1 .. 4} =
                      {<<t.x + dx, t.y + dy>> : dx \in {0, t.w \div 2}, dy \in {0, t.h \div 2}}

\* The tree of a tick has a node at the greatest depth that holds more than
\* QT_CAPACITY items and was not split, and a full node above that depth.
C24_Witness ==
    /\ ticks > 0
    /\ \E t \in AllNodes(TickTree) :
          t.depth = QT_MAX_DEPTH /\ Len(t.items) > QT_CAPACITY /\ t.children = << >>
    /\ \E t \in AllNodes(TickTree) : t.depth = QT_MAX_DEPTH - 1 /\ t.children # << >>

\* C25: whenever the document is shown and isVisible is true, a frame callback
\* is pending (so a tick will run).
C25_FramePending == (~hidden /\ isVisible) => rafQueue # << >>

\* C26: in a tick, when particle i is processed, every other particle j whose
\* current centre (the one its own pass left it at, for j before i) is at a
\* positive distance below the collision threshold from i has pushed i: what
\* the pass added to the velocity of i on account of j is the collision push
\* for the two positions.
C26_NoPairMissed ==
    [][(ticks' = ticks + 1) =>
          \A i, j \in 1 .. Len(nodes) :
             LET cur == IF j < i THEN nodes'[j] ELSE nodes[j]
             IN  (i # j /\ Colliding(nodes[i], cur)) =>
                    lastTick'.pushes[i][j] = CollisionPush(nodes[i], cur)]_vars

RECURSIVE AllItems(_)
\* The item lists of every node of a tree, one after the other.
AllItems(t) ==
    IF t.children = << >> THEN t.items
    ELSE t.items \o AllItems(t.children[1]) \o AllItems(t.children[2])
             \o AllItems(t.children[3]) \o AllItems(t.children[4])

\* No element occurs twice in a sequence.
NoRepeat(s) == \A a, b \in 1 .. Len(s) : s[a] = s[b] => a = b

\* C27: after each of the inserts with which a tick builds its tree, every
\* particle inserted so far is in the item list of exactly one node, once; and
\* in the finished tree retrieve(p) returns p, and no particle twice.
C27_StoredOnce ==
    ticks > 0 =>
       LET arr == lastTick.before
       IN  /\ \A k \in 0 .. Len(arr) :
                LET held == AllItems(BuildTree(SubSeq(arr, 1, k), width, height))
                IN  /\ NoRepeat(held)
                    /\ Range(held) = 1 .. k
           /\ \A p \in 1 .. Len(arr) :
                LET got == Retrieve(TickTree, arr[p])
                IN  /\ p \in Range(got)
                    /\ NoRepeat(got)

\* The tree of a tick was split twice, and a particle stored in a quadrant of a
\* quadrant retrieves itself and others.
C27_Witness ==
    /\ ticks > 0
    /\ \E t \in SplitNodes(TickTree) : t.depth = 1
    /\ \E t \in AllNodes(TickTree) :
          /\ t.depth = 2
          /\ \E k \in 1 .. Len(t.items) :
                /\ t.items[k] \in Range(Retrieve(TickTree, lastTick.before[t.items[k]]))
                /\ Len(Retrieve(TickTree, lastTick.before[t.items[k]])) > 1

\* C28: once the resize events have stopped, the size of the simulation
\* eventually is, and stays, the size of the window, and the particles are a
\* population generated for it.
C28_FinalSizeApplied ==
    <>[](/\ width = Px(innerWidth)
         /\ height = Px(innerHeight)
         /\ centerX = Px(innerWidth) \div 2
         /\ centerY = Px(innerHeight) \div 2)

\* C29: a particle that a tick has clamped to a wall (it was beyond the clamp
\* line of the wall before the tick and is on it after) has, on that axis, a
\* velocity that is zero or points into the field.
C29_ClampedVelocityInward ==
    [][(ticks' = ticks + 1 /\ Len(nodes') = Len(nodes)) =>
          \A i \in 1 .. Len(nodes) :
             LET n == nodes[i]
                 m == nodes'[i]
             IN  /\ (n.y < n.r /\ m.y = m.r) => m.vy >= 0
                 /\ (n.y > height - n.r /\ m.y = height - m.r) => m.vy <= 0
                 /\ (n.x < n.r /\ m.x = m.r) => m.vx >= 0
                 /\ (n.x > width - n.r /\ m.x = width - m.r) => m.vx <= 0]_vars

=============================================================================
